---- MODULE Spec2Model ----
(***************************************************************************)
(* Model of modelo-compresor-1.py: a Streamlit script that is executed     *)
(* top to bottom on connect and again after every widget interaction.      *)
(* Readings are rows <<timestamp, presion, temperatura, vibracion>> of the *)
(* table read from datos_compresor.csv; derived tables (the date           *)
(* selection, anomalies, the normal rows) are sets of row labels (pandas   *)
(* index values) of the loaded table.  Vibration and its threshold are     *)
(* fixed-point numbers in tenths.                                          *)
(***************************************************************************)
EXTENDS Integers, Sequences, FiniteSets

VARIABLES
    disk,                   \* datos_compresor.csv: [exists, rows]
    cache,                  \* st.cache_data entry of load_data(): [hit, rows]
    threshold_pressure,     \* slider 'Umbral de Presion'
    threshold_temperature,  \* slider 'Umbral de Temperatura'
    threshold_vibration,    \* slider 'Umbral de Vibracion' (tenths)
    start_date,             \* date_input 'Fecha de inicio'
    end_date,               \* date_input 'Fecha de fin'
    button,                 \* the export button's trigger value in the last run
    last_event,             \* "none", "run" (a script run) or "disk" (a file change)
    status,                 \* "init" (no run yet), "ok", "error" (load raised)
    df,                     \* the table the last run worked on
    banner,                 \* number of threshold-exceeded warnings shown
    selected,               \* filtered_df after line 63 (row labels)
    anomalies,              \* anomalies after line 66 (row labels)
    filtered_df,            \* filtered_df after line 70 (row labels)
    offered,                \* the export button was rendered in the last run
    wrote,                  \* to_csv was executed in the last run
    datos_filtrados,        \* datos_filtrados.csv: [exists, rows]
    anomaly_alert,          \* the 'anomalias detectadas' warning was shown
    possible_root_causes    \* the list written at line 164

vars == <<disk, cache, threshold_pressure, threshold_temperature,
          threshold_vibration, start_date, end_date, button, last_event, status,
          df, banner, selected, anomalies, filtered_df, offered, wrote,
          datos_filtrados, anomaly_alert, possible_root_causes>>

-----------------------------------------------------------------------------
(* Bounds of the model *)

MaxRows == 2                \* rows of a table

-----------------------------------------------------------------------------
(* Values *)

\* A missing CSV field: pandas reads it as NaN; every comparison with NaN is
\* False, and describe() skips it.
NaN == -1

\* date_input before it was ever rendered (no user value yet).
NoDate == -1

\* Ticks of the timestamp per calendar day: .dt.date drops the time of day.
TicksPerDay == 2

\* Fixed-point unit of vibration: 1.0 is VibUnit tenths.
VibUnit == 10

DefaultPressure == 60
DefaultTemperature == 90
DefaultVibration == 7

\* Slider positions the model explores (subsets of 0..100, 0..150, 0.0..1.0).
PressureSteps == {0, DefaultPressure}
TemperatureSteps == {1, DefaultTemperature}
VibrationSteps == {DefaultVibration, VibUnit}

\* Field values the model explores.
Stamps == {1, 2}
PressureReadings == {60, NaN}
TemperatureReadings == {1, 91}
VibrationReadings == {7, 8}

Readings == [timestamp : Stamps, presion : PressureReadings,
             temperatura : TemperatureReadings, vibracion : VibrationReadings]

RECURSIVE SeqsUpTo(_, _)
SeqsUpTo(S, n) ==
    IF n = 0 THEN {<<>>}
    ELSE LET shorter == SeqsUpTo(S, n - 1)
         IN  shorter \cup {Append(s, x) : s \in {t \in shorter : Len(t) = n - 1}, x \in S}

\* Well-formed, non-empty input tables.
Tables == SeqsUpTo(Readings, MaxRows) \ {<<>>}

NoFile == [exists |-> FALSE, rows |-> <<>>]
File(t) == [exists |-> TRUE, rows |-> t]
NoEntry == [hit |-> FALSE, rows |-> <<>>]
Entry(t) == [hit |-> TRUE, rows |-> t]

-----------------------------------------------------------------------------
(* Element-wise comparisons of a pandas column with a scalar *)

Gt(x, t) == x # NaN /\ x > t
Le(x, t) == x # NaN /\ x <= t

\* Series.dt.date: the calendar day of a timestamp.
date(ts) == ts \div TicksPerDay

RECURSIVE SetMin(_)
SetMin(S) ==
    LET x == CHOOSE y \in S : TRUE
    IN  IF S = {x} THEN x
        ELSE LET m == SetMin(S \ {x}) IN IF x < m THEN x ELSE m

RECURSIVE SetMax(_)
SetMax(S) ==
    LET x == CHOOSE y \in S : TRUE
    IN  IF S = {x} THEN x
        ELSE LET m == SetMax(S \ {x}) IN IF x > m THEN x ELSE m

\* df['timestamp'].min().date() and df['timestamp'].max().date()
MinDate(t) == date(SetMin({t[i].timestamp : i \in DOMAIN t}))
MaxDate(t) == date(SetMax({t[i].timestamp : i \in DOMAIN t}))

\* Dates the two date pickers can be set to.
Dates == {date(ts) : ts \in Stamps}

-----------------------------------------------------------------------------
(* Loader *)

\* A plausible slip: load_data without the cache decorator.
load_data_uncached(c, d) ==
    IF d.exists THEN [ok |-> TRUE, rows |-> d.rows, cache |-> Entry(d.rows)]
    ELSE [ok |-> FALSE, rows |-> <<>>, cache |-> c]

\* @st.cache_data load_data(): a hit returns the cached table; a miss reads
\* the file and stores the result; a read error stores nothing.
load_data(c, d) ==
    IF c.hit THEN [ok |-> TRUE, rows |-> c.rows, cache |-> c]
    ELSE IF d.exists THEN [ok |-> TRUE, rows |-> d.rows, cache |-> Entry(d.rows)]
    ELSE [ok |-> FALSE, rows |-> <<>>, cache |-> c]

-----------------------------------------------------------------------------
(* Alerting *)

\* A plausible slip: the alert computed after the date filter.
AnyExceedSelected(t, s, e, tp, tt, tv) ==
    LET sel == {i \in DOMAIN t : date(t[i].timestamp) >= s /\ date(t[i].timestamp) <= e}
    IN  \/ \E i \in sel : Gt(t[i].presion, tp)
        \/ \E i \in sel : Gt(t[i].temperatura, tt)
        \/ \E i \in sel : Gt(t[i].vibracion, tv)

\* A plausible slip: the three tests joined with `and`.
AnyExceedAll(t, s, e, tp, tt, tv) ==
    /\ \E i \in DOMAIN t : Gt(t[i].presion, tp)
    /\ \E i \in DOMAIN t : Gt(t[i].temperatura, tt)
    /\ \E i \in DOMAIN t : Gt(t[i].vibracion, tv)

\* Line 50; the dates s, e are not used.
AnyExceed(t, s, e, tp, tt, tv) ==
    \/ \E i \in DOMAIN t : Gt(t[i].presion, tp)
    \/ \E i \in DOMAIN t : Gt(t[i].temperatura, tt)
    \/ \E i \in DOMAIN t : Gt(t[i].vibracion, tv)

-----------------------------------------------------------------------------
(* Date filter *)

\* A plausible slip: comparing the timestamp itself with midnight of the dates.
DateFilterMidnight(t, s, e) ==
    {i \in DOMAIN t : t[i].timestamp >= s * TicksPerDay /\ t[i].timestamp <= e * TicksPerDay}

\* Line 63.
DateFilter(t, s, e) ==
    {i \in DOMAIN t : date(t[i].timestamp) >= s /\ date(t[i].timestamp) <= e}

-----------------------------------------------------------------------------
(* Anomaly split *)

\* A plausible slip: >= in the anomaly mask.
AnomalyMaskGe(r, tp, tt, tv) ==
    \/ r.presion # NaN /\ r.presion >= tp
    \/ Gt(r.temperatura, tt)
    \/ Gt(r.vibracion, tv)

\* Lines 66-68.
AnomalyMask(r, tp, tt, tv) ==
    \/ Gt(r.presion, tp)
    \/ Gt(r.temperatura, tt)
    \/ Gt(r.vibracion, tv)

\* Lines 70-72.
NormalMask(r, tp, tt, tv) ==
    /\ Le(r.presion, tp)
    /\ Le(r.temperatura, tt)
    /\ Le(r.vibracion, tv)

Anomalies(t, sel, tp, tt, tv) == {i \in sel : AnomalyMask(t[i], tp, tt, tv)}
Normal(t, sel, tp, tt, tv) == {i \in sel : NormalMask(t[i], tp, tt, tv)}

-----------------------------------------------------------------------------
(* Exporter *)

\* A plausible slip: the button rendered without the emptiness guard.
ExportOfferedAlways(normal) == TRUE

\* Line 75.
ExportOffered(normal) == normal # {}

\* The rows of t with labels in S, in table order (to_csv, index=False).
RECURSIVE RowsOf(_, _, _)
RowsOf(t, S, i) ==
    IF i > Len(t) THEN <<>>
    ELSE (IF i \in S THEN <<t[i]>> ELSE <<>>) \o RowsOf(t, S, i + 1)

-----------------------------------------------------------------------------
(* Statistics reporter: DataFrame.describe() of the anomaly rows *)

\* The index of describe(), in its order.
StatRows == <<"count", "mean", "std", "min", "25%", "50%", "75%", "max">>

\* The non-missing values of a column over the rows S, in table order.
RECURSIVE ColumnValues(_, _, _, _)
ColumnValues(t, S, col, i) ==
    IF i > Len(t) THEN <<>>
    ELSE (IF i \in S /\ t[i][col] # NaN THEN <<t[i][col]>> ELSE <<>>)
         \o ColumnValues(t, S, col, i + 1)

RECURSIVE Insert(_, _)
Insert(xs, x) ==
    IF xs = <<>> THEN <<x>>
    ELSE IF x <= Head(xs) THEN <<x>> \o xs
    ELSE <<Head(xs)>> \o Insert(Tail(xs), x)

RECURSIVE Sorted(_)
Sorted(xs) == IF xs = <<>> THEN <<>> ELSE Insert(Sorted(Tail(xs)), Head(xs))

RECURSIVE Sum(_)
Sum(xs) == IF xs = <<>> THEN 0 ELSE Head(xs) + Sum(Tail(xs))

RECURSIVE SumSq(_)
SumSq(xs) == IF xs = <<>> THEN 0 ELSE Head(xs) * Head(xs) + SumSq(Tail(xs))

\* A statistic is num/den, the square root of num/den, or NaN.
NaNStat == [kind |-> "nan", num |-> 0, den |-> 1]
Rat(n, d) == [kind |-> "rat", num |-> n, den |-> d]
Root(n, d) == [kind |-> "sqrt", num |-> n, den |-> d]

\* Quantile k/4 of the sorted values xs by linear interpolation.
Quartile(xs, k) ==
    LET n == Len(xs)
        lo == ((n - 1) * k) \div 4
        r == ((n - 1) * k) % 4
    IN  IF n = 0 THEN NaNStat
        ELSE IF r = 0 THEN Rat(xs[lo + 1], 1)
        ELSE Rat(4 * xs[lo + 1] + r * (xs[lo + 2] - xs[lo + 1]), 4)

\* describe() of one column with values vs, as the sequence of its statistics
\* in the order of StatRows; unit is the column's fixed-point unit, so that
\* the count n is n * unit in the column's scale.
DescribeColumn(vs, unit) ==
    LET xs == Sorted(vs)
        n == Len(xs)
        sum == Sum(xs)
    IN  IF n = 0
        THEN <<Rat(0, 1), NaNStat, NaNStat, NaNStat, NaNStat, NaNStat, NaNStat, NaNStat>>
        ELSE << Rat(n * unit, 1),
                Rat(sum, n),
                IF n < 2 THEN NaNStat ELSE Root(n * SumSq(xs) - sum * sum, n * (n - 1)),
                Rat(xs[1], 1),
                Quartile(xs, 1),
                Quartile(xs, 2),
                Quartile(xs, 3),
                Rat(xs[n], 1) >>

\* anomaly_stats = anomalies[['presion','temperatura','vibracion']].describe():
\* one column of statistics per metric, anomaly_stats[col][k] being the
\* statistic StatRows[k] of column col.
AnomalyStats(t, S) ==
    [presion |-> DescribeColumn(ColumnValues(t, S, "presion", 1), 1),
     temperatura |-> DescribeColumn(ColumnValues(t, S, "temperatura", 1), 1),
     vibracion |-> DescribeColumn(ColumnValues(t, S, "vibracion", 1), VibUnit)]

\* row[col] > threshold for a threshold >= 0 (the sliders' minimum is 0).
StatGt(s, thr) ==
    CASE s.kind = "nan" -> FALSE
      [] s.kind = "rat" -> s.num > thr * s.den
      [] s.kind = "sqrt" -> s.num > thr * thr * s.den

-----------------------------------------------------------------------------
(* Root-cause heuristic *)

PresionAlta == "Presion alta"
TemperaturaAlta == "Temperatura alta"
VibracionAlta == "Vibracion alta"

\* Lines 156-161: the labels row k of anomaly_stats appends.
RowCauses(stats, k, tp, tt, tv) ==
    (IF StatGt(stats.presion[k], tp) THEN <<PresionAlta>> ELSE <<>>)
    \o (IF StatGt(stats.temperatura[k], tt) THEN <<TemperaturaAlta>> ELSE <<>>)
    \o (IF StatGt(stats.vibracion[k], tv) THEN <<VibracionAlta>> ELSE <<>>)

RECURSIVE RootCausesFrom(_, _, _, _, _)
RootCausesFrom(stats, k, tp, tt, tv) ==
    IF k > Len(StatRows) THEN <<>>
    ELSE RowCauses(stats, k, tp, tt, tv) \o RootCausesFrom(stats, k + 1, tp, tt, tv)

\* A plausible slip: each label kept once.
RECURSIVE Unique(_)
Unique(xs) ==
    IF xs = <<>> THEN <<>>
    ELSE LET front == Unique(SubSeq(xs, 1, Len(xs) - 1))
             x == xs[Len(xs)]
         IN  IF \E j \in DOMAIN front : front[j] = x THEN front ELSE Append(front, x)

RootCausesUnique(stats, tp, tt, tv) == Unique(RootCausesFrom(stats, 1, tp, tt, tv))

\* A plausible slip: iterating the statistics without the count row.
RootCausesNoCount(stats, tp, tt, tv) == RootCausesFrom(stats, 2, tp, tt, tv)

\* Lines 152-161: for index, row in anomaly_stats.iterrows().
RootCauses(stats, tp, tt, tv) == RootCausesFrom(stats, 1, tp, tt, tv)

-----------------------------------------------------------------------------
(* One execution of the script, lines 44-168, with the widget values it sees *)

Run(tp, tt, tv, sd, ed, btn) ==
    LET ld == load_data(cache, disk)
    IN  /\ threshold_pressure' = tp
        /\ threshold_temperature' = tt
        /\ threshold_vibration' = tv
        /\ button' = btn
        /\ last_event' = "run"
        /\ cache' = ld.cache
        /\ UNCHANGED disk
        /\ IF ~ld.ok
           THEN \* pd.read_csv raised at line 49: nothing below it is executed
                /\ status' = "error"
                /\ df' = <<>>
                /\ start_date' = NoDate
                /\ end_date' = NoDate
                /\ banner' = 0
                /\ selected' = {}
                /\ anomalies' = {}
                /\ filtered_df' = {}
                /\ offered' = FALSE
                /\ wrote' = FALSE
                /\ anomaly_alert' = FALSE
                /\ possible_root_causes' = <<>>
                /\ UNCHANGED datos_filtrados
           ELSE LET t == ld.rows
                    s == IF sd = NoDate THEN MinDate(t) ELSE sd
                    e == IF ed = NoDate THEN MaxDate(t) ELSE ed
                    sel == DateFilter(t, s, e)
                    anom == Anomalies(t, sel, tp, tt, tv)
                    norm == Normal(t, sel, tp, tt, tv)
                    shown == ExportOffered(norm)
                IN  /\ status' = "ok"
                    /\ df' = t
                    /\ banner' = IF AnyExceed(t, s, e, tp, tt, tv) THEN 1 ELSE 0
                    /\ start_date' = s
                    /\ end_date' = e
                    /\ selected' = sel
                    /\ anomalies' = anom
                    /\ filtered_df' = norm
                    /\ offered' = shown
                    /\ wrote' = (shown /\ btn)
                    /\ datos_filtrados' = IF shown /\ btn THEN File(RowsOf(t, norm, 1))
                                          ELSE datos_filtrados
                    /\ anomaly_alert' = (anom # {})
                    /\ possible_root_causes' =
                           IF anom # {} THEN RootCauses(AnomalyStats(t, anom), tp, tt, tv)
                           ELSE <<>>

\* A browser session connects: the first run, every widget at its default.
Connect ==
    /\ status = "init"
    /\ Run(threshold_pressure, threshold_temperature, threshold_vibration,
           NoDate, NoDate, FALSE)

\* The sliders are rendered before the table is loaded (lines 44-46).
SetPressure(v) ==
    /\ status # "init"
    /\ v # threshold_pressure
    /\ Run(v, threshold_temperature, threshold_vibration, start_date, end_date, FALSE)

SetTemperature(v) ==
    /\ status # "init"
    /\ v # threshold_temperature
    /\ Run(threshold_pressure, v, threshold_vibration, start_date, end_date, FALSE)

SetVibration(v) ==
    /\ status # "init"
    /\ v # threshold_vibration
    /\ Run(threshold_pressure, threshold_temperature, v, start_date, end_date, FALSE)

\* The date pickers are rendered after the table is loaded (lines 59-60).
SetStart(d) ==
    /\ status = "ok"
    /\ d # start_date
    /\ Run(threshold_pressure, threshold_temperature, threshold_vibration, d, end_date, FALSE)

SetEnd(d) ==
    /\ status = "ok"
    /\ d # end_date
    /\ Run(threshold_pressure, threshold_temperature, threshold_vibration, start_date, d, FALSE)

\* A click on the export button the last run rendered. The click may reach the
\* server together with a slider change made while the page was still showing
\* the button, so the run sees the button's trigger and pressure threshold v.
PressButton(v) ==
    /\ status = "ok"
    /\ offered
    /\ Run(v, threshold_temperature, threshold_vibration, start_date, end_date, TRUE)

\* datos_compresor.csv is replaced or removed outside the program.
ChangeDisk(f) ==
    /\ f # disk
    /\ disk' = f
    /\ last_event' = "disk"
    /\ UNCHANGED <<cache, threshold_pressure, threshold_temperature,
                   threshold_vibration, start_date, end_date, button, status,
                   df, banner, selected, anomalies, filtered_df, offered, wrote,
                   datos_filtrados, anomaly_alert, possible_root_causes>>

-----------------------------------------------------------------------------
(* Specifications *)

\* The process has started; no session has run the script yet.
Start ==
    /\ cache = NoEntry
    /\ threshold_pressure = DefaultPressure
    /\ threshold_temperature = DefaultTemperature
    /\ threshold_vibration = DefaultVibration
    /\ start_date = NoDate
    /\ end_date = NoDate
    /\ button = FALSE
    /\ last_event = "none"
    /\ status = "init"
    /\ df = <<>>
    /\ banner = 0
    /\ selected = {}
    /\ anomalies = {}
    /\ filtered_df = {}
    /\ offered = FALSE
    /\ wrote = FALSE
    /\ datos_filtrados = NoFile
    /\ anomaly_alert = FALSE
    /\ possible_root_causes = <<>>

Interact ==
    \/ Connect
    \/ \E v \in PressureSteps : SetPressure(v)
    \/ \E v \in TemperatureSteps : SetTemperature(v)
    \/ \E v \in VibrationSteps : SetVibration(v)
    \/ \E d \in Dates : SetStart(d)
    \/ \E d \in Dates : SetEnd(d)

\* The pipeline over every well-formed input file, the file left alone.
Init == Start /\ disk \in {File(t) : t \in Tables}
Next == Interact
Spec == Init /\ [][Next]_vars

\* The session with the export button and the input file changing on disk.
SessionReadings == [timestamp : {1}, presion : {60, NaN}, temperatura : {1}, vibracion : {7}]
SessionFiles == {NoFile} \cup {File(t) : t \in SeqsUpTo(SessionReadings, MaxRows) \ {<<>>}}
InitSession == Start /\ disk \in SessionFiles
NextSession ==
    \/ Interact
    \/ \E v \in PressureSteps : PressButton(v)
    \/ \E f \in SessionFiles : ChangeDisk(f)
SpecSession == InitSession /\ [][NextSession]_vars

-----------------------------------------------------------------------------
(* Properties *)

\* The rows of the loaded table whose calendar day lies in [start, end],
\* stated on the timestamps: day d is the ticks d*TicksPerDay up to, not
\* including, (d+1)*TicksPerDay.
InRange(i) ==
    /\ df[i].timestamp >= start_date * TicksPerDay
    /\ df[i].timestamp < (end_date + 1) * TicksPerDay

DateSelected == {i \in DOMAIN df : InRange(i)}

\* A metric value that is present and strictly above its threshold.
Exceeds(x, thr) == x # NaN /\ x > thr
Within(x, thr) == x # NaN /\ ~(x > thr)

ExceedsAny(r) ==
    \/ Exceeds(r.presion, threshold_pressure)
    \/ Exceeds(r.temperatura, threshold_temperature)
    \/ Exceeds(r.vibracion, threshold_vibration)

Count(xs, x) == Cardinality({j \in DOMAIN xs : xs[j] = x})

\* C1: in every run the anomalies and the normal rows are a complete, disjoint
\* partition of the date-selected rows of the loaded table.
C1_Partition ==
    status = "ok" =>
        /\ anomalies \cup filtered_df = DateSelected
        /\ anomalies \cap filtered_df = {}

\* C2: a date-selected row is an anomaly iff at least one of its metrics is
\* strictly above its threshold; a row whose pressure equals the pressure
\* threshold, with temperature and vibration at or below theirs, is normal and
\* not an anomaly.
C2_StrictThreshold ==
    status = "ok" =>
        \A i \in DateSelected :
            /\ (i \in anomalies) <=> ExceedsAny(df[i])
            /\ ( /\ df[i].presion = threshold_pressure
                 /\ Within(df[i].temperatura, threshold_temperature)
                 /\ Within(df[i].vibracion, threshold_vibration) )
               => (i \in filtered_df /\ i \notin anomalies)

C2_Witness ==
    /\ status = "ok"
    /\ \E i \in DateSelected :
          /\ df[i].presion = threshold_pressure
          /\ df[i].temperatura = threshold_temperature
          /\ i \in filtered_df
    /\ anomalies # {}

\* C3: the date filter keeps exactly the rows whose calendar day d satisfies
\* start <= d <= end, whatever their time of day; with start > end it keeps
\* nothing and the run does not fail.
C3_DateFilterInclusive ==
    /\ status # "error"
    /\ status = "ok" =>
          /\ selected = DateSelected
          /\ start_date > end_date => selected = {}

C3_Witness ==
    /\ status = "ok"
    /\ \E i \in selected :
          /\ df[i].timestamp > end_date * TicksPerDay
          /\ df[i].timestamp = start_date * TicksPerDay + 1
    /\ \E j \in DOMAIN df : j \notin selected

\* C4: the export button is rendered only in a run whose normal partition is
\* non-empty; datos_filtrados.csv is written only in such a run when the
\* button was pressed, and every other step leaves the file as it was.
C4_ExportGuard ==
    [][ /\ offered' => filtered_df' # {}
        /\ wrote' => (button' /\ filtered_df' # {})
        /\ ~(button' /\ filtered_df' # {} /\ last_event' = "run")
              => datos_filtrados' = datos_filtrados ]_vars

C4_Witness ==
    /\ status = "ok"
    /\ last_event = "run"
    /\ button
    /\ filtered_df = {}
    /\ ~wrote
    /\ datos_filtrados.exists

\* C5: a run that differs from the previous one only in a threshold has the
\* same date-selected rows, and as many rows in anomalies plus normal.
C5_ThresholdKeepsCount ==
    [][ ( /\ status = "ok" /\ status' = "ok" /\ last_event' = "run"
          /\ df' = df /\ start_date' = start_date /\ end_date' = end_date )
        => /\ selected' = selected
           /\ Cardinality(anomalies') + Cardinality(filtered_df')
                = Cardinality(anomalies) + Cardinality(filtered_df) ]_vars

\* C6: the threshold warning is shown iff some row of the whole loaded table
\* has a metric above its threshold, whatever the dates, and is shown once.
C6_BannerFullTable ==
    status = "ok" =>
        /\ banner \in {0, 1}
        /\ banner = 1 <=> \E i \in DOMAIN df : ExceedsAny(df[i])

C6_Witness ==
    /\ status = "ok"
    /\ banner = 1
    /\ DateSelected # {}
    /\ \A i \in DateSelected : ~ExceedsAny(df[i])
    /\ Cardinality({m \in {"presion", "temperatura", "vibracion"} :
            \E i \in DOMAIN df :
                Exceeds(df[i][m], CASE m = "presion" -> threshold_pressure
                                    [] m = "temperatura" -> threshold_temperature
                                    [] m = "vibracion" -> threshold_vibration)}) > 1

\* The (statistic row, metric) pairs of anomaly_stats in row-major order.
StatPairs ==
    [j \in 1 .. 3 * Len(StatRows) |->
        << ((j - 1) \div 3) + 1, <<"presion", "temperatura", "vibracion">>[((j - 1) % 3) + 1] >>]

ThresholdOf(m) ==
    CASE m = "presion" -> threshold_pressure
      [] m = "temperatura" -> threshold_temperature
      [] m = "vibracion" -> threshold_vibration

LabelOf(m) ==
    CASE m = "presion" -> PresionAlta
      [] m = "temperatura" -> TemperaturaAlta
      [] m = "vibracion" -> VibracionAlta

PairExceeds(pr) == StatGt(AnomalyStats(df, anomalies)[pr[2]][pr[1]], ThresholdOf(pr[2]))

\* C7: with anomalies, the root-cause list holds one label per (statistic row,
\* metric) pair above the metric's threshold, in row order and within a row in
\* the order pressure, temperature, vibration, without deduplication.
C7_RootCauseList ==
    (status = "ok" /\ anomalies # {}) =>
        LET stats == AnomalyStats(df, anomalies)
            Hit(pr) == StatGt(stats[pr[2]][pr[1]], ThresholdOf(pr[2]))
            hits == SelectSeq(StatPairs, Hit)
        IN  /\ Len(possible_root_causes) = Cardinality({j \in DOMAIN StatPairs : Hit(StatPairs[j])})
            /\ possible_root_causes = [j \in 1 .. Len(hits) |-> LabelOf(hits[j][2])]
            /\ (Hit(<<2, "presion">>) /\ Hit(<<8, "presion">>))
                  => Count(possible_root_causes, PresionAlta) >= 2

C7_Witness ==
    /\ status = "ok"
    /\ anomalies # {}
    /\ PairExceeds(<<2, "presion">>)
    /\ PairExceeds(<<8, "presion">>)
    /\ PairExceeds(<<8, "temperatura">>)
    /\ ~PairExceeds(<<2, "temperatura">>)
    /\ Count(possible_root_causes, PresionAlta) >= 2
    /\ Len(possible_root_causes) > Cardinality({possible_root_causes[j] : j \in DOMAIN possible_root_causes})

\* C8: once load_data has succeeded, every later run works on that table, also
\* after datos_compresor.csv changed, and the cached table never changes; the
\* table is read from the file only while nothing is cached.
C8_LoadedOnce ==
    [][ /\ cache.hit => /\ cache' = cache
                        /\ last_event' = "run" => (status' = "ok" /\ df' = cache.rows)
        /\ (~cache.hit /\ cache'.hit) => (disk.exists /\ cache'.rows = disk.rows) ]_vars

C8_Witness ==
    /\ last_event = "run"
    /\ status = "ok"
    /\ cache.hit
    /\ df = cache.rows
    /\ disk # File(cache.rows)
    /\ threshold_pressure # DefaultPressure

NoneMissing(S) ==
    \A i \in S : df[i].presion # NaN /\ df[i].temperatura # NaN /\ df[i].vibracion # NaN

\* C9: with anomalies that have no missing value, a metric's label is in the
\* root-cause list whenever the number of anomaly rows is above that metric's
\* threshold; so a vibration threshold below 1 always yields 'Vibracion alta'.
C9_CountRowLabel ==
    (status = "ok" /\ anomalies # {} /\ NoneMissing(anomalies)) =>
        LET n == Cardinality(anomalies)
        IN  /\ threshold_vibration < VibUnit => Count(possible_root_causes, VibracionAlta) >= 1
            /\ n * VibUnit > threshold_vibration => Count(possible_root_causes, VibracionAlta) >= 1
            /\ n > threshold_pressure => Count(possible_root_causes, PresionAlta) >= 1
            /\ n > threshold_temperature => Count(possible_root_causes, TemperaturaAlta) >= 1

C9_Witness ==
    /\ status = "ok"
    /\ anomalies # {}
    /\ NoneMissing(anomalies)
    /\ threshold_vibration < VibUnit
    /\ \A i \in anomalies : ~Exceeds(df[i].vibracion, threshold_vibration)
    /\ Count(possible_root_causes, VibracionAlta) = 1

\* C10: a run that shows the anomaly warning also shows the threshold warning.
C10_AnomalyImpliesBanner ==
    (status = "ok" /\ (anomaly_alert \/ anomalies # {})) => banner = 1

C10_Witness ==
    /\ status = "ok"
    /\ anomaly_alert
    /\ banner = 1
    /\ \A i \in DOMAIN df : ~Exceeds(df[i].presion, threshold_pressure)

====
